---- MODULE Spec2Model ----
(***************************************************************************)
(* Model of src/app2.py: the Streamlit speech-to-text tool.                *)
(*                                                                         *)
(* One browser session is modelled.  The UI thread re-executes main() on   *)
(* every interaction; each UI action below is one whole script run: the    *)
(* constructor of StreamlitSpeechTranscriber, the handler of the widget    *)
(* that was clicked, the rerun it asks for (if any) and the rendering of   *)
(* the history panel.  The only operation that is split into steps is the  *)
(* 'Stop Recording' handler, because the audio thread's callback           *)
(* interleaves with it.                                                    *)
(*                                                                         *)
(* The real-time branch of main() (lines 365-412) is modelled as the code  *)
(* of that branch reads; the radio of line 300 lists only the built-in     *)
(* method, the branch being the one the class's start_recording and        *)
(* stop_recording serve.                                                   *)
(***************************************************************************)
EXTENDS Integers, Sequences, FiniteSets, TLC

VARIABLES
    session_state,  \* st.session_state: a key/value store, keys appear on first use
    fs,             \* the temporary directory: path -> container format of the file
    wave_out,       \* the audio bytes of the file stop_recording wrote for this handler
    streams,        \* open PyAudio streams: handle -> state of its callback thread
    pc,             \* position of the UI thread
    audio_file,     \* local of the 'Stop Recording' handler: stop_recording's result
    stop_entry,     \* the flag and the buffer stop_recording was called with
    history_panel,  \* what the last script run rendered in the history column
    run             \* what the last step did: operation, recognizer use, result, messages

vars == <<session_state, fs, wave_out, streams, pc, audio_file, stop_entry,
          history_panel, run>>

\* ---- bounds of the model ----
MaxHistory == 2      \* records kept in the history
MaxFrames == 2       \* frames captured per recording
MaxFiles == 1        \* temporary files on disk at one time

None == "None"
\* Python's None where a path is expected
NoPath == [dir |-> "", stem |-> 0, suffix |-> ""]

Texts == {"hello", "bye"}                       \* what a recognizer may return
Timestamps == {"2025-01-01 12:00:00"}           \* what time.strftime may return
FrameData == {<<0, 1>>, <<2, 3>>}               \* in_data of one callback
UploadNames == {"clip.wav"}
UploadKinds == {"wav", "mp3"}                   \* accepted by the uploader (line 422)
Outcomes == {"ok", "UnknownValueError", "RequestError", "Exception"}
Faults == {"none", "wave.Error", "OSError"}      \* what file handling may raise

\* what the recognizer, and on a success the clock, give one operation
Attempts ==
    {[outcome |-> "ok", text |-> t, timestamp |-> ts] : t \in Texts, ts \in Timestamps}
    \cup {[outcome |-> o, text |-> "", timestamp |-> ""] : o \in Outcomes \ {"ok"}}

\* an operation that never reaches the recognizer
NoAttempt == [outcome |-> None, text |-> "", timestamp |-> ""]

\* ---- session state ----
Has(ss, key) == key \in DOMAIN ss

Put(ss, key, value) ==
    [k \in DOMAIN ss \cup {key} |-> IF k = key THEN value ELSE ss[k]]

SetDefault(ss, key, value) ==
    IF Has(ss, key) THEN ss ELSE Put(ss, key, value)

\* a mutant of Construct: the constructor assigns instead of initialising when absent
ConstructResetting(ss) ==
    Put(Put(Put(ss, "transcription_history", <<>>), "is_recording", FALSE),
        "audio_frames", <<>>)

\* StreamlitSpeechTranscriber.__init__
Construct(ss) ==
    SetDefault(SetDefault(SetDefault(ss, "transcription_history", <<>>),
                          "is_recording", FALSE),
               "audio_frames", <<>>)

\* reads of the three keys, for formulas that also look at the fresh session
History(ss) == IF Has(ss, "transcription_history") THEN ss.transcription_history ELSE <<>>
Frames(ss) == IF Has(ss, "audio_frames") THEN ss.audio_frames ELSE <<>>
Recording(ss) == IF Has(ss, "is_recording") THEN ss.is_recording ELSE FALSE

\* ---- recognition ----
\* a mutant of transcribe_audio_data: a service error is reported as a success
transcribe_audio_data_swallow(outcome, text) ==
    IF outcome = "ok" THEN <<text, TRUE>>
    ELSE IF outcome = "UnknownValueError"
    THEN <<"Could not understand the audio. Please try speaking more clearly.", FALSE>>
    ELSE IF outcome = "RequestError"
    THEN <<"Error with the recognition service: e", TRUE>>
    ELSE <<"An unexpected error occurred: e", FALSE>>

\* transcribe_audio_data: outcome is what the one recognizer call did
transcribe_audio_data(outcome, text) ==
    IF outcome = "ok" THEN <<text, TRUE>>
    ELSE IF outcome = "UnknownValueError"
    THEN <<"Could not understand the audio. Please try speaking more clearly.", FALSE>>
    ELSE IF outcome = "RequestError"
    THEN <<"Error with the recognition service: e", FALSE>>
    ELSE <<"An unexpected error occurred: e", FALSE>>

\* the recognizer calls of one transcribe_audio_data: each branch of the engine
\* test (google, sphinx, any other name) makes one call, inside the try
RecognizerCalls(outcome) == IF outcome \in Outcomes THEN 1 ELSE 0

\* ---- history ----
\* a mutant of add_to_history: the new record replaces the newest one
add_to_history_overwrite(ss, transcription, source, timestamp) ==
    LET h == ss.transcription_history
        rec == [timestamp |-> timestamp, transcription |-> transcription, source |-> source]
    IN  [ss EXCEPT !.transcription_history =
            IF h = <<>> THEN <<rec>> ELSE [h EXCEPT ![Len(h)] = rec]]

add_to_history(ss, transcription, source, timestamp) ==
    [ss EXCEPT !.transcription_history =
        Append(@, [timestamp |-> timestamp, transcription |-> transcription,
                   source |-> source])]

\* a mutant of clear_history: the button reruns without emptying the list
clear_history_keep(ss) == ss

\* the 'Clear History' assignment
clear_history(ss) == [ss EXCEPT !.transcription_history = <<>>]

Reversed(s) == [i \in 1..Len(s) |-> s[Len(s) + 1 - i]]

\* a mutant of render_history: the list is enumerated oldest first
render_history_forward(h) ==
    IF h # <<>>
    THEN [panel |-> "records",
          entries |-> [k \in 1..Len(h) |->
                        [label |-> Len(h) - (k - 1), item |-> h[k], expanded |-> (k - 1 = 0)]]]
    ELSE [panel |-> "info", entries |-> <<>>]

\* the history column: entry k is enumerate index i = k - 1
render_history(h) ==
    IF h # <<>>
    THEN [panel |-> "records",
          entries |-> [k \in 1..Len(h) |->
                        [label |-> Len(h) - (k - 1), item |-> Reversed(h)[k],
                         expanded |-> (k - 1 = 0)]]]
    ELSE [panel |-> "info", entries |-> <<>>]

NotRendered == [panel |-> "none", entries |-> <<>>]

\* ---- temporary files ----
\* tempfile.NamedTemporaryFile(delete=False, suffix=".wav"): an unused name
TempPath(n) == [dir |-> "/tmp", stem |-> n, suffix |-> ".wav"]

FreshPath(files) ==
    TempPath(CHOOSE n \in 1..(Cardinality(DOMAIN files) + 1) : TempPath(n) \notin DOMAIN files)

WriteFile(files, path, content) ==
    [p \in DOMAIN files \cup {path} |-> IF p = path THEN content ELSE files[p]]

\* os.unlink guarded by os.path.exists
Unlink(files, path) == [p \in DOMAIN files \ {path} |-> files[p]]

\* input_path.replace(".tmp", ".wav")
ReplaceTmp(path) ==
    [path EXCEPT !.dir = IF @ = ".tmp" THEN ".wav" ELSE @,
                 !.suffix = IF @ = ".tmp" THEN ".wav" ELSE @]

\* sr.AudioFile and wave.open read PCM containers, not MP3
Readable(format) == format # "mp3"

\* b''.join(frames)
RECURSIVE Join(_)
Join(frames) == IF frames = <<>> THEN <<>> ELSE Head(frames) \o Join(Tail(frames))

\* convert_audio_format: None when wave.open raises, else the output path; the
\* frames are read before the output is opened, so writing over the input keeps them
convert_audio_format(files, input_path, wave_error) ==
    LET output_path == ReplaceTmp(input_path)
    IN  IF wave_error \/ ~Readable(files[input_path])
        THEN [fs |-> files, path |-> NoPath]
        ELSE [fs |-> WriteFile(files, output_path, files[input_path]), path |-> output_path]

\* transcribe_uploaded_file: the file is unlinked only when sr.AudioFile read it
transcribe_uploaded_file(files, kind, outcome, text) ==
    LET tmp_file_path == FreshPath(files)
        written == WriteFile(files, tmp_file_path, kind)
    IN  IF Readable(written[tmp_file_path])
        THEN [fs |-> Unlink(written, tmp_file_path),
              result |-> transcribe_audio_data(outcome, text),
              recognition |-> outcome,
              calls |-> RecognizerCalls(outcome),
              created |-> {tmp_file_path}]
        ELSE [fs |-> written, result |-> <<"Error processing file: e", FALSE>>,
              recognition |-> None, calls |-> 0, created |-> {tmp_file_path}]

\* the messages of a handler's "if success: ... else: st.error(...)"
Shown(result) ==
    IF result[2] THEN <<"transcription", result[1], "success">> ELSE <<"error", result[1]>>

\* a mutant of Record: the record is appended whatever the recognition returned
RecordAlways(ss, result, source, timestamp) ==
    add_to_history(ss, result[1], source, timestamp)

\* "if success: transcriber.add_to_history(transcription, source)"
Record(ss, result, source, timestamp) ==
    IF result[2] THEN add_to_history(ss, result[1], source, timestamp) ELSE ss

\* the bound on the history: a success needs room for its record
Room(ss, outcome) == outcome = "ok" => Len(History(ss)) < MaxHistory

\* ---- real-time recording ----
\* a mutant of StartEnabled: the button is never disabled
StartEnabledAlways(ss) == TRUE

\* 'Start Recording' is rendered with disabled=st.session_state.is_recording
StartEnabled(ss) == ~ss.is_recording

\* 'Stop Recording' is rendered with disabled=not st.session_state.is_recording
StopEnabled(ss) == ss.is_recording

FreshStream(open) ==
    CHOOSE n \in 1..(Cardinality(DOMAIN open) + 1) : n \notin DOMAIN open

\* start_recording: the flag, the empty buffer and the handles of the new stream
start_recording(ss, stream) ==
    Put(Put(Put(Put(ss, "is_recording", TRUE), "audio_frames", <<>>),
            "audio_stream", stream), "audio_p", stream)

\* the test of the callback, "if st.session_state.is_recording"
CallbackTest(ss) == ss.is_recording

\* stop_recording up to the assignment of line 220
stop_recording_flag(ss) ==
    IF ss.is_recording THEN [ss EXCEPT !.is_recording = FALSE] ELSE ss

\* stop_stream and close of line 223-225: the handle kept in the session is closed
CloseStream(open, ss) ==
    IF Has(ss, "audio_stream")
    THEN [h \in DOMAIN open \ {ss.audio_stream} |-> open[h]]
    ELSE open

\* a mutant of WaveData: the frames are written newest first
WaveDataReversed(frames) == Join(Reversed(frames))

\* the bytes wf.writeframes is given on line 237
WaveData(frames) == Join(frames)

\* what a call of stop_recording finds in the session
Entry(ss) == [is_recording |-> ss.is_recording, audio_frames |-> ss.audio_frames]

\* no call of stop_recording is in progress
NoCall == [is_recording |-> FALSE, audio_frames |-> <<>>]

Idle(op) == [op |-> op, recognition |-> None, result |-> <<>>, shown |-> <<>>,
             calls |-> 0, created |-> {}]

Init ==
    /\ session_state = << >>
    /\ fs = << >>
    /\ wave_out = << >>
    /\ streams = << >>
    /\ pc = "idle"
    /\ audio_file = NoPath
    /\ stop_entry = NoCall
    /\ history_panel = NotRendered
    /\ run = Idle("none")

\* a script run in which no button is clicked (a selectbox change, 'Clear Recording')
Rerun ==
    /\ pc = "idle"
    /\ session_state' = Construct(session_state)
    /\ history_panel' = render_history(session_state'.transcription_history)
    /\ run' = Idle("rerun")
    /\ UNCHANGED <<fs, wave_out, streams, pc, audio_file, stop_entry>>

\* 'Clear History', shown when the history is not empty
ClearHistory ==
    /\ pc = "idle"
    /\ Construct(session_state).transcription_history # <<>>
    /\ session_state' = Construct(clear_history(Construct(session_state)))
    /\ history_panel' = render_history(session_state'.transcription_history)
    /\ run' = Idle("clear_history")
    /\ UNCHANGED <<fs, wave_out, streams, pc, audio_file, stop_entry>>

\* 'Transcribe Recording' of the built-in audio input (lines 316-359)
TranscribeRecording ==
    /\ pc = "idle"
    /\ Cardinality(DOMAIN fs) < MaxFiles
    /\ \E fault \in Faults :
        LET ss == Construct(session_state)
            tmp_file_path == FreshPath(fs)
            written == WriteFile(fs, tmp_file_path, "wav")
            converted == convert_audio_format(written, tmp_file_path, fault = "wave.Error")
            wav_file_path == converted.path
            made == {tmp_file_path} \cup (IF wav_file_path = NoPath THEN {} ELSE {wav_file_path})
        IN  IF wav_file_path = NoPath
            THEN \* line 333: the run returns before the history column
                 /\ session_state' = ss
                 /\ fs' = converted.fs
                 /\ history_panel' = NotRendered
                 /\ run' = [op |-> "transcribe_recording", recognition |-> None,
                            result |-> <<>>,
                            shown |-> <<"error", "Could not process the recorded audio.">>,
                            calls |-> 0, created |-> made]
            ELSE IF fault = "OSError"
            THEN \* lines 358-359: sr.AudioFile or record raised
                 /\ session_state' = ss
                 /\ fs' = converted.fs
                 /\ history_panel' = render_history(ss.transcription_history)
                 /\ run' = [op |-> "transcribe_recording", recognition |-> None,
                            result |-> <<>>,
                            shown |-> <<"error", "Error processing audio: e">>,
                            calls |-> 0, created |-> made]
            ELSE \E a \in Attempts :
                 LET result == transcribe_audio_data(a.outcome, a.text)
                 IN  /\ Room(ss, a.outcome)
                     /\ session_state' = Record(ss, result, <<"Audio Recording">>, a.timestamp)
                     /\ fs' = Unlink(Unlink(converted.fs, tmp_file_path), wav_file_path)
                     /\ history_panel' = render_history(session_state'.transcription_history)
                     /\ run' = [op |-> "transcribe_recording", recognition |-> a.outcome,
                                result |-> result, shown |-> Shown(result),
                                calls |-> RecognizerCalls(a.outcome), created |-> made]
    /\ UNCHANGED <<wave_out, streams, pc, audio_file, stop_entry>>

\* 'Transcribe File' (lines 436-445)
TranscribeFile ==
    /\ pc = "idle"
    /\ Cardinality(DOMAIN fs) < MaxFiles
    /\ \E name \in UploadNames, kind \in UploadKinds :
       \E a \in (IF Readable(kind) THEN Attempts ELSE {NoAttempt}) :
        LET ss == Construct(session_state)
            done == transcribe_uploaded_file(fs, kind, a.outcome, a.text)
        IN  /\ Room(ss, a.outcome)
            /\ session_state' = Record(ss, done.result, <<"File: ", name>>, a.timestamp)
            /\ fs' = done.fs
            /\ history_panel' = render_history(session_state'.transcription_history)
            /\ run' = [op |-> "transcribe_file", recognition |-> done.recognition,
                       result |-> done.result, shown |-> Shown(done.result),
                       calls |-> done.calls, created |-> done.created]
    /\ UNCHANGED <<wave_out, streams, pc, audio_file, stop_entry>>

\* 'Start Recording' (lines 370-373, 187-215)
StartRecording ==
    /\ pc = "idle"
    /\ StartEnabled(Construct(session_state))
    /\ LET stream == FreshStream(streams)
       IN  /\ session_state' = Construct(start_recording(Construct(session_state), stream))
           /\ streams' = [h \in DOMAIN streams \cup {stream} |->
                            IF h = stream THEN "active" ELSE streams[h]]
    /\ history_panel' = render_history(session_state'.transcription_history)
    /\ run' = Idle("start_recording")
    /\ UNCHANGED <<fs, wave_out, pc, audio_file, stop_entry>>

\* the audio thread enters callback and evaluates the test of line 197
CallbackEnter ==
    /\ \E h \in DOMAIN streams :
        /\ streams[h] = "active"
        /\ CallbackTest(session_state) => Len(session_state.audio_frames) < MaxFrames
        /\ streams' = [streams EXCEPT ![h] =
                         IF CallbackTest(session_state) THEN "in_callback" ELSE "complete"]
    /\ run' = Idle("callback")
    /\ UNCHANGED <<session_state, fs, wave_out, pc, audio_file, stop_entry, history_panel>>

\* the audio thread runs line 198-199: the append, then paContinue
CallbackAppend ==
    /\ \E h \in DOMAIN streams, in_data \in FrameData :
        /\ streams[h] = "in_callback"
        /\ session_state' = [session_state EXCEPT !.audio_frames = Append(@, in_data)]
        /\ streams' = [streams EXCEPT ![h] = "active"]
    /\ run' = Idle("callback")
    /\ UNCHANGED <<fs, wave_out, pc, audio_file, stop_entry, history_panel>>

\* 'Stop Recording' is clicked: the script runs up to line 220
StopClick ==
    /\ pc = "idle"
    /\ StopEnabled(Construct(session_state))
    /\ Cardinality(DOMAIN fs) < MaxFiles
    /\ stop_entry' = Entry(Construct(session_state))
    /\ session_state' = stop_recording_flag(Construct(session_state))
    /\ pc' = "stop_flag_cleared"
    /\ run' = Idle("stop_click")
    /\ UNCHANGED <<fs, wave_out, streams, audio_file, history_panel>>

\* stop_recording called on the constructed transcriber whatever the flag is: while
\* recording it runs up to line 220, otherwise it falls through to line 240
StopCall ==
    /\ pc = "idle"
    /\ Has(session_state, "is_recording") /\ Has(session_state, "audio_frames")
    /\ Cardinality(DOMAIN fs) < MaxFiles
    /\ stop_entry' = Entry(session_state)
    /\ session_state' = stop_recording_flag(session_state)
    /\ IF session_state.is_recording
       THEN /\ pc' = "stop_flag_cleared"
            /\ audio_file' = audio_file
            /\ run' = Idle("stop_call")
       ELSE /\ pc' = "stop_returned"
            /\ audio_file' = NoPath
            /\ run' = Idle("stop_recording")
    /\ UNCHANGED <<fs, wave_out, streams, history_panel>>

\* stop_recording from line 223 to its return; stop_stream returns once the
\* callback in progress has returned
StopFlush ==
    /\ pc = "stop_flag_cleared"
    /\ \A h \in DOMAIN streams :
        (Has(session_state, "audio_stream") /\ h = session_state.audio_stream)
            => streams[h] # "in_callback"
    /\ streams' = CloseStream(streams, session_state)
    /\ LET frames == session_state.audio_frames
           tmp_file == FreshPath(fs)
       IN  /\ IF frames # <<>>
              THEN /\ fs' = WriteFile(fs, tmp_file, "wav")
                   /\ wave_out' = WaveData(frames)
                   /\ audio_file' = tmp_file
                   /\ run' = [Idle("stop_recording") EXCEPT !.created = {tmp_file}]
              ELSE /\ fs' = fs
                   /\ wave_out' = <<>>
                   /\ audio_file' = NoPath
                   /\ run' = Idle("stop_recording")
           /\ session_state' = session_state
    /\ pc' = "stop_returned"
    /\ UNCHANGED <<stop_entry, history_panel>>

\* the rest of the 'Stop Recording' handler (lines 380-405) and the rerun it asks for
StopProcess ==
    /\ pc = "stop_returned"
    /\ IF audio_file = NoPath
       THEN /\ session_state' = Construct(session_state)
            /\ fs' = fs
            /\ run' = Idle("process_recording")
       ELSE \E fault \in Faults \ {"wave.Error"} :
            IF fault = "OSError"
            THEN \* lines 402-403: sr.AudioFile or record raised
                 /\ session_state' = Construct(session_state)
                 /\ fs' = fs
                 /\ run' = [op |-> "process_recording", recognition |-> None,
                            result |-> <<>>,
                            shown |-> <<"error", "Error processing audio: e">>,
                            calls |-> 0, created |-> {audio_file}]
            ELSE \E a \in Attempts :
                 LET result == transcribe_audio_data(a.outcome, a.text)
                 IN  /\ Room(session_state, a.outcome)
                     /\ session_state' = Construct(Record(session_state, result,
                                                          <<"Audio Recording">>, a.timestamp))
                     /\ fs' = Unlink(fs, audio_file)
                     /\ run' = [op |-> "process_recording", recognition |-> a.outcome,
                                result |-> result, shown |-> Shown(result),
                                calls |-> RecognizerCalls(a.outcome), created |-> {audio_file}]
    /\ history_panel' = render_history(session_state'.transcription_history)
    /\ pc' = "idle"
    /\ audio_file' = NoPath
    /\ wave_out' = <<>>
    /\ stop_entry' = NoCall
    /\ UNCHANGED streams

Next ==
    \/ Rerun
    \/ ClearHistory
    \/ TranscribeRecording
    \/ TranscribeFile
    \/ StartRecording
    \/ CallbackEnter
    \/ CallbackAppend
    \/ StopClick
    \/ StopFlush
    \/ StopProcess

Spec == Init /\ [][Next]_vars

\* the session with stop_recording also called when the button would be disabled
NextCalls == Next \/ StopCall

SpecCalls == Init /\ [][NextCalls]_vars

\* ---- properties ----
Transcribed(r) == r.op \in {"transcribe_recording", "process_recording", "transcribe_file"}
Succeeded(r) == r.result # <<>> /\ r.result[2]

IsPrefix(s, t) == Len(s) <= Len(t) /\ \A i \in 1..Len(s) : s[i] = t[i]

\* C1: on each of the three transcription paths the history grows by exactly one
\* record when the recognition returns success and is the same before and after
\* when it fails; the history never grows without a successful recognition.
HistoryFollowsRecognition ==
    [][LET before == History(session_state)
           after == History(session_state')
       IN  /\ (Transcribed(run') /\ Succeeded(run'))
                => (Len(after) = Len(before) + 1 /\ IsPrefix(before, after))
           /\ (Transcribed(run') /\ ~Succeeded(run')) => after = before
           /\ Len(after) > Len(before)
                => (Transcribed(run') /\ run'.recognition = "ok" /\ run'.calls = 1)]_vars

RecordingTranscribedSeen ==
    /\ run.op = "process_recording"
    /\ Succeeded(run)
    /\ Len(History(session_state)) = 2

\* C2: each failure kind of a recognition ends the operation with a (message,
\* False) result shown as an error, after at most one recognizer call, with the
\* UI thread back at rest and the history as it was.
FailureIsTerminal ==
    [][(Transcribed(run') /\ run'.recognition \in Outcomes \ {"ok"})
        => /\ Len(run'.result) = 2
           /\ run'.result[2] = FALSE
           /\ run'.result[1] \notin Texts
           /\ run'.shown = <<"error", run'.result[1]>>
           /\ run'.calls <= 1
           /\ pc' = "idle"
           /\ History(session_state') = History(session_state)]_vars

FailureWithHistorySeen ==
    /\ run.op = "transcribe_file"
    /\ run.recognition = "RequestError"
    /\ History(session_state) # <<>>

\* C3: after 'Clear History' the history has length 0 and the history column
\* shows the empty-history message and no record.
ClearEmptiesHistory ==
    run.op = "clear_history"
        => /\ Len(History(session_state)) = 0
           /\ history_panel = [panel |-> "info", entries |-> <<>>]

ClearedSeen ==
    /\ run.op = "clear_history"
    /\ history_panel.panel = "info"
    /\ Frames(session_state) # <<>>

\* C4: every append of a frame to audio_frames happens in a state where
\* is_recording is true.
AppendOnlyWhileRecording ==
    [][Len(Frames(session_state')) > Len(Frames(session_state))
        => Recording(session_state)]_vars

\* the file of stop_recording holds the frames, whole and in capture order
HoldsFrames(data, frames) ==
    \/ frames = <<>> /\ data = <<>>
    \/ /\ frames # <<>>
       /\ LET size == Len(frames[1])
          IN  /\ Len(data) = size * Len(frames)
              /\ \A i \in 1..Len(frames) : \A j \in 1..size :
                    data[(i - 1) * size + j] = frames[i][j]

StopRecordingReturns == pc = "stop_flag_cleared" /\ pc' = "stop_returned"

\* C5 as stated: when stop_recording returns, the buffer is empty and the written
\* file holds exactly the frames that were buffered, in capture order.
StopDiscardsBuffer ==
    [][StopRecordingReturns
        => /\ Frames(session_state') = <<>>
           /\ Frames(session_state) # <<>>
                => (audio_file' \in DOMAIN fs'
                    /\ HoldsFrames(wave_out', Frames(session_state)))]_vars

\* C5 as amended: when stop_recording returns with frames buffered, the written
\* file holds exactly the buffered frames, in capture order, and the buffer
\* still holds them.
StopFlushesAndKeepsBuffer ==
    [][StopRecordingReturns
        => /\ Frames(session_state') = Frames(session_state)
           /\ Frames(session_state) # <<>>
                => (audio_file' \in DOMAIN fs'
                    /\ audio_file' \notin DOMAIN fs
                    /\ HoldsFrames(wave_out', Frames(session_state)))]_vars

TwoFramesFlushedSeen ==
    /\ pc = "stop_returned"
    /\ audio_file \in DOMAIN fs
    /\ Len(Frames(session_state)) = 2
    /\ Frames(session_state)[1] # Frames(session_state)[2]

\* C6: at most one capture stream is open at any time, and a stream is opened
\* only when is_recording is false.
OneRecordingBuffer ==
    [][/\ Cardinality(DOMAIN streams') <= 1
       /\ DOMAIN streams' \ DOMAIN streams # {} => ~Recording(session_state)]_vars

SecondRecordingSeen ==
    /\ Cardinality(DOMAIN streams) = 1
    /\ Recording(session_state)
    /\ Frames(session_state) # <<>>
    /\ History(session_state) # <<>>

\* C7: when a transcription operation has finished, every temporary file it
\* created has been deleted.
TempFilesDeleted ==
    (pc = "idle" /\ Transcribed(run)) => run.created \cap DOMAIN fs = {}

\* C8: every operation other than 'Clear History' leaves the history it found
\* as a prefix of the history it leaves, record by record.
HistoryAppendOnly ==
    [][run'.op # "clear_history"
        => IsPrefix(History(session_state), History(session_state'))]_vars

SecondRecordSeen ==
    /\ Len(History(session_state)) = 2
    /\ History(session_state)[1] # History(session_state)[2]
    /\ Transcribed(run) /\ Succeeded(run)

PersistentKeys == {"transcription_history", "is_recording", "audio_frames"}

InitialValue(key) == IF key = "is_recording" THEN FALSE ELSE <<>>

\* C9: a script run in which nothing is clicked leaves the transcription
\* history, the is_recording flag and the audio_frames buffer as they were when
\* present, and sets them to their initial values when absent.
RerunKeepsSession ==
    [][run'.op = "rerun"
        => \A key \in PersistentKeys :
            /\ Has(session_state', key)
            /\ session_state'[key] =
                 IF Has(session_state, key) THEN session_state[key] ELSE InitialValue(key)]_vars

RerunWhileRecordingSeen ==
    /\ run.op = "rerun"
    /\ History(session_state) # <<>>
    /\ Frames(session_state) # <<>>
    /\ Recording(session_state)

\* C10: a rendered history of n records shows n entries; entry i (from 0) is
\* the record appended (n-i)-th, is labelled n-i, and is expanded only for i = 0.
NewestFirst ==
    LET h == History(session_state)
        n == Len(h)
        shown == history_panel.entries
    IN  /\ (h # <<>> /\ history_panel.panel # "none") => history_panel.panel = "records"
        /\ history_panel.panel = "records"
            => /\ Len(shown) = n
               /\ \A i \in 0..(n - 1) :
                    /\ shown[i + 1].item = h[n - i]
                    /\ shown[i + 1].label = n - i
                    /\ shown[i + 1].expanded = (i = 0)

TwoEntriesSeen ==
    /\ history_panel.panel = "records"
    /\ Len(history_panel.entries) = 2
    /\ history_panel.entries[1].item # history_panel.entries[2].item

StopRecordingCallReturns == pc # "stop_returned" /\ pc' = "stop_returned"

\* C11: stop_recording leaves is_recording false; it returns a path exactly when
\* it was called while is_recording was true with a non-empty buffer; called
\* while not recording it returns None and changes nothing; called with an
\* empty buffer it returns None and creates no file.
StopReturnsPathIffRecorded ==
    [][StopRecordingCallReturns
        => /\ Recording(session_state') = FALSE
           /\ audio_file' # NoPath
                <=> (stop_entry'.is_recording /\ stop_entry'.audio_frames # <<>>)
           /\ ~stop_entry'.is_recording
                => /\ audio_file' = NoPath
                   /\ session_state' = session_state
                   /\ fs' = fs /\ streams' = streams
           /\ stop_entry'.audio_frames = <<>>
                => (audio_file' = NoPath /\ fs' = fs)]_vars
====
